---- MODULE Spec2Model ----
(***************************************************************************)
(* A model of starlite_saqlalchemy's SQLAlchemyRepository                  *)
(* (repository/sqlalchemy.py) over an abstract table and session.          *)
(*                                                                         *)
(* The table is a function from identifiers to rows; a SELECT scans it in  *)
(* ascending identifier order.  The session is the set of identifiers of   *)
(* the instances it has attached.  Each repository method is an operator   *)
(* from (inputs, table, session) to an outcome; each action runs one       *)
(* method as a whole and leaves the outcome in `last` until the caller     *)
(* takes it (Return).                                                      *)
(*                                                                         *)
(* The module also models monitored_job and PeriodicHeartbeat (worker.py)  *)
(* as two tasks of one event loop, and before_startup_handler with its     *)
(* readiness loops (lifespan.py) against backends that come and go.        *)
(***************************************************************************)
EXTENDS Integers, Sequences, FiniteSets

\* ---------------------------------------------------------------- bounds
\* Identifiers are 1..NumIds; filter bounds range over the times 0..MaxTime;
\* limits and offsets over 0..MaxLimit.
NumIds == 2
MaxTime == 2
MaxLimit == 2

\* Python's None and SQL's NULL.
None == -1

Ids == 1..NumIds
Vals == {1, 2}
Times == 0..MaxTime
\* The instants at which rows are written.
Instants == {0, 1}
Fields == {"id", "val", "created", "updated"}

\* ------------------------------------------------------------ exceptions
NoExc == [type |-> "none", msg |-> ""]
Exc(t, m) == [type |-> t, msg |-> m]

\* sqlalchemy.exc: the backend-native exception types (all derive from
\* SQLAlchemyError; IntegrityError is the constraint-violation one).
NativeTypes ==
    {"SQLAlchemyError", "IntegrityError", "OperationalError",
     "MultipleResultsFound", "NoResultFound", "InvalidRequestError"}

IsNative(exc) == exc.type \in NativeTypes

\* A mutation of the boundary: the generic handler is tried first.
wrap_generic_first(exc) ==
    IF exc.type \in NativeTypes
    THEN Exc("StarliteSaqlalchemyError", "An exception occurred: " \o exc.msg)
    ELSE exc

\* wrap_sqlalchemy_exception: what the caller of the `with` block observes
\* when the block raised exc (NoExc: the block completed).
wrap_sqlalchemy_exception(exc) ==
    IF exc.type = "IntegrityError"
    THEN Exc("ConflictError", "")
    ELSE IF exc.type \in NativeTypes
    THEN Exc("StarliteSaqlalchemyError", "An exception occurred: " \o exc.msg)
    ELSE exc

\* ------------------------------------------------------------------ rows
NoRow == [id |-> None, val |-> None, created |-> None, updated |-> None]

Row(i, v, c, u) == [id |-> i, val |-> v, created |-> c, updated |-> u]

Attr(row, field_name) ==
    CASE field_name = "id" -> row.id
      [] field_name = "val" -> row.val
      [] field_name = "created" -> row.created
      [] field_name = "updated" -> row.updated
      [] field_name = "slug" -> row.slug

\* --------------------------------------------------------------- filters
LimitOffset(l, o) ==
    [kind |-> "LimitOffset", field_name |-> "", before |-> None, after |-> None,
     values |-> {}, limit |-> l, offset |-> o]

BeforeAfter(f, b, a) ==
    [kind |-> "BeforeAfter", field_name |-> f, before |-> b, after |-> a,
     values |-> {}, limit |-> None, offset |-> None]

CollectionFilter(f, vs) ==
    [kind |-> "CollectionFilter", field_name |-> f, before |-> None, after |-> None,
     values |-> vs, limit |-> None, offset |-> None]

\* A filter object of none of the three known types.
OtherFilter ==
    [kind |-> "Other", field_name |-> "", before |-> None, after |-> None,
     values |-> {}, limit |-> None, offset |-> None]

\* ------------------------------------------------------------ statements
\* A SELECT: its WHERE conjuncts, LIMIT, OFFSET and what it selects
\* ("entity", "entity_over_count": the entity and a windowed count, "count").
Pred(op, f, v, vs) == [op |-> op, field |-> f, value |-> v, values |-> vs]

BaseStatement == [wheres |-> <<>>, limit |-> None, offset |-> None, cols |-> "entity"]

Where(statement, p) == [statement EXCEPT !.wheres = Append(@, p)]

\* SQL comparison of a column with a bound value: a comparison with NULL is
\* never true.
EvalPred(p, row) ==
    LET x == Attr(row, p.field) IN
    CASE p.op = "<" -> x # None /\ p.value # None /\ x < p.value
      [] p.op = ">" -> x # None /\ p.value # None /\ x > p.value
      [] p.op = "==" /\ p.field = "slug" -> x = p.value
      [] p.op = "==" /\ p.field # "slug" -> x # None /\ p.value # None /\ x = p.value
      [] p.op = "in" -> x # None /\ x \in p.values

_apply_limit_offset_pagination(limit, offset, statement) ==
    [statement EXCEPT !.limit = limit, !.offset = offset]

\* A mutation: an empty collection is rendered as an empty IN list.
_filter_in_collection_always(field_name, values, statement) ==
    Where(statement, Pred("in", field_name, None, values))

_filter_in_collection(field_name, values, statement) ==
    IF values = {}
    THEN statement
    ELSE Where(statement, Pred("in", field_name, None, values))

_filter_on_datetime_field(field_name, before, after, statement) ==
    LET s1 == IF before # None
              THEN Where(statement, Pred("<", field_name, before, {}))
              ELSE statement
    IN  IF after # None
        THEN Where(s1, Pred(">", field_name, before, {}))
        ELSE s1

\* kwargs: a sequence of <<key, value>> pairs.
RECURSIVE _filter_select_by_kwargs(_, _)
_filter_select_by_kwargs(statement, kwargs) ==
    IF kwargs = <<>>
    THEN statement
    ELSE _filter_select_by_kwargs(
             Where(statement, Pred("==", Head(kwargs)[1], Head(kwargs)[2], {})),
             Tail(kwargs))

\* A mutation of _apply_filters: a filter of an unknown type is skipped.
RECURSIVE _apply_filters_skipping(_, _, _)
_apply_filters_skipping(filters, apply_pagination, statement) ==
    IF filters = <<>>
    THEN [statement |-> statement, raised |-> NoExc]
    ELSE LET filter_ == Head(filters) IN
         _apply_filters_skipping(
             Tail(filters), apply_pagination,
             IF filter_.kind = "LimitOffset" /\ apply_pagination
             THEN _apply_limit_offset_pagination(filter_.limit, filter_.offset, statement)
             ELSE IF filter_.kind = "BeforeAfter"
             THEN _filter_on_datetime_field(
                      filter_.field_name, filter_.before, filter_.after, statement)
             ELSE IF filter_.kind = "CollectionFilter"
             THEN _filter_in_collection(filter_.field_name, filter_.values, statement)
             ELSE statement)

\* The result is the statement, or the exception raised on an unknown filter.
RECURSIVE _apply_filters(_, _, _)
_apply_filters(filters, apply_pagination, statement) ==
    IF filters = <<>>
    THEN [statement |-> statement, raised |-> NoExc]
    ELSE LET filter_ == Head(filters) IN
         IF filter_.kind = "LimitOffset"
         THEN _apply_filters(
                  Tail(filters), apply_pagination,
                  IF apply_pagination
                  THEN _apply_limit_offset_pagination(filter_.limit, filter_.offset, statement)
                  ELSE statement)
         ELSE IF filter_.kind = "BeforeAfter"
         THEN _apply_filters(
                  Tail(filters), apply_pagination,
                  _filter_on_datetime_field(
                      filter_.field_name, filter_.before, filter_.after, statement))
         ELSE IF filter_.kind = "CollectionFilter"
         THEN _apply_filters(
                  Tail(filters), apply_pagination,
                  _filter_in_collection(filter_.field_name, filter_.values, statement))
         ELSE [statement |-> statement,
               raised |-> Exc("StarliteSaqlalchemyError", "Unexpected filter")]

\* ------------------------------------------------------------- execution
RECURSIVE Ascending(_)
Ascending(S) ==
    IF S = {}
    THEN <<>>
    ELSE LET m == CHOOSE x \in S : \A y \in S : x <= y
         IN  <<m>> \o Ascending(S \ {m})

Min2(a, b) == IF a < b THEN a ELSE b

\* LIMIT and OFFSET applied to a sequence of result rows.
Page(rows, limit, offset) ==
    LET o == IF offset = None THEN 0 ELSE offset
        n == Len(rows)
        hi == IF limit = None THEN n ELSE Min2(n, o + limit)
    IN  SubSeq(rows, o + 1, hi)

MatchingIds(statement, st) ==
    {i \in Ids : st[i] # NoRow
                 /\ \A k \in DOMAIN statement.wheres : EvalPred(statement.wheres[k], st[i])}

\* The rows a SELECT yields: [entity, count_value] records.
ResultRows(statement, st) ==
    LET ids == Ascending(MatchingIds(statement, st))
        n == Len(ids)
    IN  IF statement.cols = "count"
        THEN Page(<<[entity |-> NoRow, count_value |-> n]>>,
                  statement.limit, statement.offset)
        ELSE Page([k \in 1..n |->
                      [entity |-> st[ids[k]],
                       count_value |-> IF statement.cols = "entity_over_count"
                                       THEN n ELSE None]],
                  statement.limit, statement.offset)

\* session.execute: fault is the exception the backend raises (NoExc: none).
_execute(statement, st, fault) ==
    IF fault # NoExc
    THEN [rows |-> <<>>, raised |-> fault]
    ELSE [rows |-> ResultRows(statement, st), raised |-> NoExc]

Entities(rows) == [k \in 1..Len(rows) |-> rows[k].entity]
IdsOf(entities) == {entities[k].id : k \in 1..Len(entities)}
SetOf(seq) == {seq[k] : k \in 1..Len(seq)}


\* --------------------------------------------------------------- session
\* The instances a query loads are attached to the session that ran it.
Loaded(sess, entities) == sess \cup IdsOf(entities)

\* session.expunge for each of the entities.
expunge(sess, entities) == sess \ IdsOf(entities)

\* touch_updated_timestamp, the before_flush hook, on one dirty instance.
touch_updated_timestamp(instance, t) == [instance EXCEPT !.updated = t]

\* A mutation of the INSERT: the data column is not written.
WithDefaultsOnly(d, fresh, t) ==
    Row(IF d.id = None THEN fresh ELSE d.id, None, t, t)

\* Column defaults on INSERT: id default=uuid4, created/updated default=now.
WithDefaults(d, fresh, t) ==
    Row(IF d.id = None THEN fresh ELSE d.id,
        d.val,
        IF d.created = None THEN t ELSE d.created,
        IF d.updated = None THEN t ELSE d.updated)

\* session.merge copies onto the loaded row the attributes set on data.
Merged(old, d) ==
    Row(old.id,
        IF d.val = None THEN old.val ELSE d.val,
        IF d.created = None THEN old.created ELSE d.created,
        IF d.updated = None THEN old.updated ELSE d.updated)

\* -------------------------------------------------------------- outcomes
\* What a call leaves: the table, the session, the value returned (entities,
\* a count, a flag, a statement), the exception raised inside the method
\* (raised), whether the raise point lies inside a `with
\* wrap_sqlalchemy_exception()` block (inside) and the exception the caller
\* observes (err).
Outcome(st, sess, ret, n, flag, statement, raised, inside, err) ==
    [store |-> st, session |-> sess, ret |-> ret, count |-> n,
     flag |-> flag, statement |-> statement, raised |-> raised, inside |-> inside,
     err |-> err]

\* `return` from inside the boundary.
Returned(st, sess, ret, n, flag) ==
    Outcome(st, sess, ret, n, flag, BaseStatement, NoExc, TRUE,
            wrap_sqlalchemy_exception(NoExc))

\* An exception raised inside the boundary.
RaisedInside(st, sess, exc) ==
    Outcome(st, sess, <<>>, None, FALSE, BaseStatement, exc, TRUE,
            wrap_sqlalchemy_exception(exc))

\* An exception raised outside any boundary reaches the caller as it is.
RaisedOutside(st, sess, exc) ==
    Outcome(st, sess, <<>>, None, FALSE, BaseStatement, exc, FALSE, exc)

\* An inner call's outcome seen through the enclosing boundary: the
\* exception it let out passes the outer handler.
Through(o) == [o EXCEPT !.inside = TRUE, !.err = wrap_sqlalchemy_exception(o.err)]

\* Result.scalar_one_or_none
scalar_one_or_none(rows) ==
    IF Len(rows) > 1
    THEN [value |-> <<>>, raised |-> Exc("MultipleResultsFound", "Multiple rows were found")]
    ELSE [value |-> Entities(rows), raised |-> NoExc]

\* Result.scalar_one on a count statement
scalar_one(rows) ==
    IF Len(rows) = 0
    THEN [value |-> None, raised |-> Exc("NoResultFound", "No row was found")]
    ELSE IF Len(rows) > 1
    THEN [value |-> None, raised |-> Exc("MultipleResultsFound", "Multiple rows were found")]
    ELSE [value |-> rows[1].count_value, raised |-> NoExc]

\* AbstractRepository.check_not_found
check_not_found(value) ==
    IF value = <<>> THEN Exc("NotFoundError", "No item found when one was expected") ELSE NoExc

\* ------------------------------------------------------- read operations
list(filters, kwargs, st, sess, fault) ==
    LET af == _apply_filters(filters, TRUE, BaseStatement) IN
    IF af.raised # NoExc
    THEN RaisedOutside(st, sess, af.raised)
    ELSE LET statement == _filter_select_by_kwargs(af.statement, kwargs)
             result == _execute(statement, st, fault)
         IN  IF result.raised # NoExc
             THEN RaisedInside(st, sess, result.raised)
             ELSE LET instances == Entities(result.rows)
                  IN  Returned(st, expunge(Loaded(sess, instances), instances),
                               instances, None, FALSE)

list_and_count(filters, kwargs, st, sess, fault) ==
    LET af == _apply_filters(filters, TRUE,
                             [BaseStatement EXCEPT !.cols = "entity_over_count"])
    IN
    IF af.raised # NoExc
    THEN RaisedOutside(st, sess, af.raised)
    ELSE LET statement == _filter_select_by_kwargs(af.statement, kwargs)
             result == _execute(statement, st, fault)
         IN  IF result.raised # NoExc
             THEN RaisedInside(st, sess, result.raised)
             ELSE LET instances == Entities(result.rows)
                      count_ == IF Len(result.rows) = 0
                                THEN 0
                                ELSE result.rows[1].count_value
                  IN  Returned(st, expunge(Loaded(sess, instances), instances),
                               instances, count_, FALSE)

\* A mutation of count: pagination filters are applied to the count statement.
count_paginated(filters, kwargs, st, sess, fault) ==
    LET af == _apply_filters(filters, TRUE, [BaseStatement EXCEPT !.cols = "count"]) IN
    IF af.raised # NoExc
    THEN RaisedOutside(st, sess, af.raised)
    ELSE LET results == _execute(_filter_select_by_kwargs(af.statement, kwargs), st, fault) IN
         IF results.raised # NoExc
         THEN RaisedOutside(st, sess, results.raised)
         ELSE IF scalar_one(results.rows).raised # NoExc
         THEN RaisedOutside(st, sess, scalar_one(results.rows).raised)
         ELSE Outcome(st, sess, <<>>, scalar_one(results.rows).value, FALSE,
                      BaseStatement, NoExc, FALSE, NoExc)

\* count has no `with wrap_sqlalchemy_exception()` block.
count(filters, kwargs, st, sess, fault) ==
    LET af == _apply_filters(filters, FALSE, [BaseStatement EXCEPT !.cols = "count"]) IN
    IF af.raised # NoExc
    THEN RaisedOutside(st, sess, af.raised)
    ELSE LET statement == _filter_select_by_kwargs(af.statement, kwargs)
             results == _execute(statement, st, fault)
         IN  IF results.raised # NoExc
             THEN RaisedOutside(st, sess, results.raised)
             ELSE LET one == scalar_one(results.rows) IN
                  IF one.raised # NoExc
                  THEN RaisedOutside(st, sess, one.raised)
                  ELSE Outcome(st, sess, <<>>, one.value, FALSE, BaseStatement,
                               NoExc, FALSE, NoExc)

get_one(kwargs, st, sess, fault) ==
    LET statement == _filter_select_by_kwargs(BaseStatement, kwargs)
        result == _execute(statement, st, fault)
    IN  IF result.raised # NoExc
        THEN RaisedInside(st, sess, result.raised)
        ELSE LET one == scalar_one_or_none(result.rows) IN
             IF one.raised # NoExc
             THEN RaisedInside(st, Loaded(sess, Entities(result.rows)), one.raised)
             ELSE IF check_not_found(one.value) # NoExc
             THEN RaisedInside(st, sess, check_not_found(one.value))
             ELSE Returned(st, expunge(Loaded(sess, one.value), one.value),
                           one.value, None, FALSE)

get(item_id, st, sess, fault) == get_one(<<<<"id", item_id>>>>, st, sess, fault)

\* A mutation of get_one_or_none: absence is an error, as in get_one.
get_one_or_none_raising(kwargs, st, sess, fault) == get_one(kwargs, st, sess, fault)

get_one_or_none(kwargs, st, sess, fault) ==
    LET statement == _filter_select_by_kwargs(BaseStatement, kwargs)
        result == _execute(statement, st, fault)
    IN  IF result.raised # NoExc
        THEN RaisedInside(st, sess, result.raised)
        ELSE LET one == scalar_one_or_none(result.rows) IN
             IF one.raised # NoExc
             THEN RaisedInside(st, Loaded(sess, Entities(result.rows)), one.raised)
             ELSE Returned(st, expunge(Loaded(sess, one.value), one.value),
                           one.value, None, FALSE)

\* ------------------------------------------------------ write operations
\* _attach_to_session: "add" leaves the model pending; "merge" loads the row
\* with the model's identifier and copies the model's attributes onto it, or
\* leaves a new pending instance when there is no such row.
_attach_to_session(sess, model, strategy, st) ==
    IF strategy = "merge" /\ model.id # None /\ st[model.id] # NoRow
    THEN [session |-> sess \cup {model.id}, instance |-> Merged(st[model.id], model),
          state |-> "persistent"]
    ELSE [session |-> sess \cup {model.id}, instance |-> model, state |-> "pending"]

\* session.flush with one attached instance: a pending instance is INSERTed
\* (a used identifier violates the primary key), a dirty one is UPDATEd after
\* the before_flush hook has touched it.
flush(st, a, t, fresh) ==
    IF a.state = "pending"
    THEN LET row == WithDefaults(a.instance, fresh, t) IN
         IF st[row.id] # NoRow
         THEN [store |-> st, id |-> row.id,
               raised |-> Exc("IntegrityError", "duplicate key")]
         ELSE [store |-> [st EXCEPT ![row.id] = row], id |-> row.id, raised |-> NoExc]
    ELSE [store |-> [st EXCEPT ![a.instance.id] = touch_updated_timestamp(a.instance, t)],
          id |-> a.instance.id, raised |-> NoExc]

\* attach, flush, refresh, expunge: the common body of add, update and upsert.
\* fault is the exception the backend raises at round trip `step` ("load":
\* the SELECT a merge of a model with an identifier starts with, "flush",
\* "refresh").  A flush that fails rolls the session back: its pending
\* instances are expunged, its persistent ones stay attached.  Nothing
\* expunges the instance when refresh fails.
Persist(data, strategy, st, sess, t, fresh, fault, step) ==
    LET a == _attach_to_session(sess, data, strategy, st) IN
    IF fault # NoExc /\ step = "load" /\ strategy = "merge" /\ data.id # None
    THEN RaisedInside(st, sess, fault)
    ELSE LET f == IF fault # NoExc /\ step = "flush"
                  THEN [store |-> st, id |-> a.instance.id, raised |-> fault]
                  ELSE flush(st, a, t, fresh)
         IN  IF f.raised # NoExc
             THEN RaisedInside(st, IF a.state = "pending" THEN sess ELSE a.session,
                               f.raised)
             ELSE LET instance == f.store[f.id]
                      s2 == (a.session \ {data.id}) \cup {f.id}
                  IN  IF fault # NoExc /\ step = "refresh"
                      THEN RaisedInside(f.store, s2, fault)
                      ELSE Returned(f.store, expunge(s2, <<instance>>), <<instance>>,
                                    None, FALSE)

\* A mutation of add: the instance is returned without session.expunge.
add_no_expunge(data, st, sess, t, fresh, fault, step) ==
    LET o == Persist(data, "add", st, sess, t, fresh, fault, step) IN
    IF o.err = NoExc THEN [o EXCEPT !.session = @ \cup IdsOf(o.ret)] ELSE o

add(data, st, sess, t, fresh, fault, step) ==
    Persist(data, "add", st, sess, t, fresh, fault, step)

\* A mutation of upsert: the model is attached with the "add" strategy.
upsert_adding(data, st, sess, t, fresh, fault, step) ==
    Persist(data, "add", st, sess, t, fresh, fault, step)

upsert(data, st, sess, t, fresh, fault, step) ==
    Persist(data, "merge", st, sess, t, fresh, fault, step)

\* A mutation of update: the existence check is left out, so that the merge
\* inserts a model whose identifier no row has.
update_unchecked(data, st, sess, t, fault, step) ==
    IF data.id = None
    THEN Through(get(data.id, st, sess, fault))
    ELSE Persist(data, "merge", st, sess, t, None, fault, step)

\* "load" is the SELECT of the get that update starts with.
update(data, st, sess, t, fault, step) ==
    LET g == get(data.id, st, sess, IF step = "load" THEN fault ELSE NoExc) IN
    IF g.err # NoExc
    THEN Through(g)
    ELSE Persist(data, "merge", st, g.session, t, None,
                 IF step = "load" THEN NoExc ELSE fault, step)

\* A mutation of delete: the instance is fetched and returned, not deleted.
delete_fetch_only(item_id, st, sess, fault, step) ==
    Through(get(item_id, st, sess, fault))

\* session.delete attaches the instance that get has expunged; a flush that
\* fails reverts the deletion and leaves the instance attached.
delete(item_id, st, sess, fault, step) ==
    LET g == get(item_id, st, sess, IF step = "load" THEN fault ELSE NoExc) IN
    IF g.err # NoExc
    THEN Through(g)
    ELSE LET instance == g.ret[1]
             s1 == g.session \cup {instance.id}
         IN  IF fault # NoExc /\ step = "flush"
             THEN RaisedInside(st, s1, fault)
             ELSE Returned([st EXCEPT ![instance.id] = NoRow],
                           expunge(s1, <<instance>>), <<instance>>, None, FALSE)

\* delete(model).where(id.in_(item_ids))
DeleteWhereIn(st, item_ids) ==
    LET hit == MatchingIds(Where(BaseStatement, Pred("in", "id", None, item_ids)), st)
    IN  [store |-> [i \in Ids |-> IF i \in hit THEN NoRow ELSE st[i]],
         rows |-> [k \in 1..Cardinality(hit) |-> st[Ascending(hit)[k]]]]

delete_many(item_ids, returning, st, sess, fault) ==
    IF returning
    THEN IF fault # NoExc
         THEN RaisedInside(st, sess, fault)
         ELSE LET d == DeleteWhereIn(st, item_ids)
                  instances == d.rows
              IN  Returned(d.store, expunge(Loaded(sess, instances), instances),
                           instances, None, FALSE)
    ELSE LET l == list(<<CollectionFilter("id", item_ids)>>, <<>>, st, sess, fault) IN
         IF l.err # NoExc
         THEN Through(l)
         ELSE Returned(DeleteWhereIn(st, item_ids).store, l.session, l.ret, None, FALSE)

\* The rows a bulk INSERT of data writes: fresh[k] is the uuid4() drawn for
\* data[k] when it has no identifier.
NewRows(data, fresh, t) == [k \in 1..Len(data) |-> WithDefaults(data[k], fresh[k], t)]

\* insert(model) with the rows as parameter sets: one row per parameter set,
\* none for an empty list; a used or repeated identifier violates the key.
BulkInsert(st, rows) ==
    IF \/ \E k \in 1..Len(rows) : st[rows[k].id] # NoRow
       \/ \E j, k \in 1..Len(rows) : j # k /\ rows[j].id = rows[k].id
    THEN [store |-> st, raised |-> Exc("IntegrityError", "duplicate key")]
    ELSE [store |-> [i \in Ids |-> IF \E k \in 1..Len(rows) : rows[k].id = i
                                   THEN (CHOOSE r \in SetOf(rows) : r.id = i)
                                   ELSE st[i]],
          raised |-> NoExc]

add_many(data, returning, st, sess, t, fresh, fault) ==
    LET rows == NewRows(data, fresh, t) IN
    IF fault # NoExc
    THEN RaisedInside(st, sess, fault)
    ELSE LET b == BulkInsert(st, rows) IN
         IF b.raised # NoExc
         THEN RaisedInside(st, sess, b.raised)
         ELSE IF returning
         THEN LET instances == [k \in 1..Len(rows) |-> b.store[rows[k].id]]
              IN  Returned(b.store, expunge(Loaded(sess, instances), instances),
                           instances, None, FALSE)
         ELSE LET new_primary_keys == {rows[k].id : k \in 1..Len(rows)}
              IN  Through(list(<<CollectionFilter("id", new_primary_keys)>>, <<>>,
                               b.store, sess, NoExc))

\* update(model) with the data as parameter sets: each sets the attributes it
\* carries on the row with its identifier; rows[k] is that row afterwards
\* (RETURNING).  No instance is dirty in the session, so the before_flush
\* hook touches nothing.
RECURSIVE BulkUpdate(_, _)
BulkUpdate(st, data) ==
    IF data = <<>>
    THEN [store |-> st, rows |-> <<>>]
    ELSE LET d == Head(data)
             hit == d.id # None /\ st[d.id] # NoRow
             st2 == IF hit THEN [st EXCEPT ![d.id] = Merged(st[d.id], d)] ELSE st
             rest == BulkUpdate(st2, Tail(data))
         IN  [store |-> rest.store,
              rows |-> (IF hit THEN <<st2[d.id]>> ELSE <<>>) \o rest.rows]

update_many(data, returning, st, sess, fault) ==
    IF fault # NoExc
    THEN RaisedInside(st, sess, fault)
    ELSE LET b == BulkUpdate(st, data) IN
         IF returning
         THEN LET instances == b.rows
              IN  Returned(b.store, expunge(Loaded(sess, instances), instances),
                           instances, None, FALSE)
         ELSE LET updated_primary_keys == {data[k].id : k \in 1..Len(data)}
              IN  Through(list(<<CollectionFilter("id", updated_primary_keys)>>, <<>>,
                               b.store, sess, NoExc))

KwVal(kwargs, key) ==
    IF \E k \in 1..Len(kwargs) : kwargs[k][1] = key
    THEN kwargs[CHOOSE k \in 1..Len(kwargs) : kwargs[k][1] = key][2]
    ELSE None

\* model_type(**kwargs)
FromKwargs(kwargs) ==
    Row(KwVal(kwargs, "id"), KwVal(kwargs, "val"),
        KwVal(kwargs, "created"), KwVal(kwargs, "updated"))

\* A mutation of the creating branch: a conflict is answered by fetching the
\* row that is there and reporting it as found.
create_or_fetch(kwargs, st, sess, t, fresh) ==
    LET a == add(FromKwargs(kwargs), st, sess, t, fresh, NoExc, "flush") IN
    IF a.err.type = "ConflictError"
    THEN get_one_or_none(kwargs, st, sess, NoExc)
    ELSE [a EXCEPT !.flag = (a.err = NoExc)]

\* The creating branch of get_or_create:
\* (await self.add(self.model_type(**kwargs)), True)
create(kwargs, st, sess, t, fresh) ==
    LET a == add(FromKwargs(kwargs), st, sess, t, fresh, NoExc, "flush")
    IN  [a EXCEPT !.flag = (a.err = NoExc)]

\* A mutation of get_or_create: an existing entity is reported as created.
get_or_create_flag_set(kwargs, st, sess, t, fresh, fault) ==
    LET existing == get_one_or_none(kwargs, st, sess, fault) IN
    IF existing.err # NoExc
    THEN existing
    ELSE IF existing.ret # <<>>
    THEN [existing EXCEPT !.flag = TRUE]
    ELSE create(kwargs, st, existing.session, t, fresh)

get_or_create(kwargs, st, sess, t, fresh, fault) ==
    LET existing == get_one_or_none(kwargs, st, sess, fault) IN
    IF existing.err # NoExc \/ existing.ret # <<>>
    THEN existing
    ELSE create(kwargs, st, existing.session, t, fresh)

\* collection.filter_by(**kwargs): a key that is no attribute of the entity
\* raises InvalidRequestError.
filter_collection_by_kwargs(collection, kwargs, st, sess) ==
    IF \E k \in 1..Len(kwargs) : kwargs[k][1] \notin Fields
    THEN RaisedInside(st, sess, Exc("InvalidRequestError", "Entity has no property"))
    ELSE [Returned(st, sess, <<>>, None, FALSE)
          EXCEPT !.statement = _filter_select_by_kwargs(collection, kwargs)]

\* check_health has no `with wrap_sqlalchemy_exception()` block.  A query is
\* the statement text; "" stands for no query given.
check_health(query, st, sess, fault) ==
    LET q == IF query = "" THEN "SELECT 1" ELSE query
        value == IF q = "SELECT 1" THEN 1 ELSE 0
    IN  IF fault # NoExc
        THEN RaisedOutside(st, sess, fault)
        ELSE Outcome(st, sess, <<>>, None, value = 1, BaseStatement, NoExc, FALSE, NoExc)

\* ----------------------------------------------------------------- slugs
\* A text and a slug are sequences of characters.
UpperCase ==
    <<"A", "B", "C", "D", "E", "F", "G", "H", "I", "J", "K", "L", "M",
      "N", "O", "P", "Q", "R", "S", "T", "U", "V", "W", "X", "Y", "Z">>

LowerCase ==
    <<"a", "b", "c", "d", "e", "f", "g", "h", "i", "j", "k", "l", "m",
      "n", "o", "p", "q", "r", "s", "t", "u", "v", "w", "x", "y", "z">>

Digits == <<"0", "1", "2", "3", "4", "5", "6", "7", "8", "9">>

\* string.ascii_lowercase + string.digits
LowerAlnum == SetOf(LowerCase) \cup SetOf(Digits)

Lower(c) ==
    IF \E k \in DOMAIN UpperCase : UpperCase[k] = c
    THEN LowerCase[CHOOSE k \in DOMAIN UpperCase : UpperCase[k] = c]
    ELSE c

\* The characters slugify keeps: word characters, white space, hyphens.
RECURSIVE KeepSlugChars(_)
KeepSlugChars(value) ==
    IF value = <<>>
    THEN <<>>
    ELSE (IF Head(value) \in LowerAlnum \cup {"_", " ", "-"}
          THEN <<Head(value)>>
          ELSE <<>>) \o KeepSlugChars(Tail(value))

\* Each run of white space and hyphens becomes one hyphen.
RECURSIVE Hyphenate(_)
Hyphenate(value) ==
    IF value = <<>>
    THEN <<>>
    ELSE IF Head(value) \in {" ", "-"}
    THEN IF Tail(value) # <<>> /\ Head(Tail(value)) \in {" ", "-"}
         THEN Hyphenate(Tail(value))
         ELSE <<"-">> \o Hyphenate(Tail(value))
    ELSE <<Head(value)>> \o Hyphenate(Tail(value))

\* str.strip("-_")
RECURSIVE Strip(_)
Strip(value) ==
    IF value = <<>>
    THEN <<>>
    ELSE IF Head(value) \in {"-", "_"}
    THEN Strip(Tail(value))
    ELSE IF value[Len(value)] \in {"-", "_"}
    THEN Strip(SubSeq(value, 1, Len(value) - 1))
    ELSE value

\* utils.slugify: lower case, only word characters and hyphens, no hyphen at
\* either end.
slugify(value) ==
    Strip(Hyphenate(KeepSlugChars([k \in 1..Len(value) |-> Lower(value[k])])))

get_by_slug(slug, st, sess, fault) ==
    get_one_or_none(<<<<"slug", slug>>>>, st, sess, fault)

\* flag: no stored entity has the slug.
_is_slug_unique(slug, st, sess, fault) ==
    LET o == get_one_or_none(<<<<"slug", slug>>>>, st, sess, fault)
    IN  [o EXCEPT !.ret = <<>>, !.flag = (o.err = NoExc /\ o.ret = <<>>)]

\* A mutation of get_available_slug: the random string is appended without
\* the hyphen.
get_available_slug_unseparated(value_to_slugify, random_string, st, sess, fault) ==
    LET slug == slugify(value_to_slugify)
        unique == _is_slug_unique(slug, st, sess, fault)
    IN  IF unique.err # NoExc
        THEN unique
        ELSE IF unique.flag
        THEN [unique EXCEPT !.ret = <<slug>>]
        ELSE [unique EXCEPT !.ret = <<slug \o random_string>>]

\* random_string is what random.choices(..., k=4) draws; ret holds the slug
\* returned.
get_available_slug(value_to_slugify, random_string, st, sess, fault) ==
    LET slug == slugify(value_to_slugify)
        unique == _is_slug_unique(slug, st, sess, fault)
    IN  IF unique.err # NoExc
        THEN unique
        ELSE IF unique.flag
        THEN [unique EXCEPT !.ret = <<slug>>]
        ELSE [unique EXCEPT !.ret = <<slug \o <<"-">> \o random_string>>]

\* ---------------------------------------------------------------- inputs
Timestamps == {None} \cup Times

FilterUniverse ==
    {LimitOffset(l, o) : l \in 0..MaxLimit, o \in 0..MaxLimit}
    \cup {BeforeAfter("created", b, a) : b \in Timestamps, a \in Timestamps}
    \cup {CollectionFilter("val", vs) : vs \in SUBSET Vals}
    \cup {OtherFilter}

\* The argument lists: of at most two elements.
AtMostTwo(S) == {<<>>} \cup {<<x>> : x \in S} \cup {<<x, y>> : x \in S, y \in S}

\* The filter lists of the query specification.
FilterLists == AtMostTwo(FilterUniverse)

\* The filter lists of the main specification: at most one filter.
FewFilterLists ==
    {<<>>, <<LimitOffset(1, 0)>>, <<LimitOffset(1, 1)>>,
     <<BeforeAfter("created", 1, None)>>, <<BeforeAfter("updated", None, 0)>>,
     <<CollectionFilter("val", {})>>, <<CollectionFilter("val", {1})>>, <<OtherFilter>>}

KwargsSet == {<<>>} \cup {<< <<"val", v>> >> : v \in Vals}

\* The constraint get puts on the identifier.
IdKwargs == {<< <<"id", i>> >> : i \in Ids}

Datum(i, v) == Row(i, v, None, None)
Data == {Datum(i, v) : i \in Ids \cup {None}, v \in Vals}
DataLists == AtMostTwo(Data)

Faults == {NoExc, Exc("OperationalError", "connection lost")}

\* The backend round trips of a write at which a fault may be raised.
Steps == {"load", "flush", "refresh"}

Queries == {"", "SELECT 1", "SELECT 0"}

HelloWorld == <<"H", "e", "l", "l", "o", " ", "W", "o", "r", "l", "d">>

Texts ==
    {HelloWorld, <<"h", "e", "l", "l", "o", "-", "w", "o", "r", "l", "d">>,
     <<" ", "H", "i", "!", " ">>, <<"a", " ", "-", " ", "B", "_">>, <<"!">>}

\* The characters the model draws the random string from, and the strings.
DrawnChars == {"a", "0"}
RandomStrings == [1..4 -> DrawnChars]

\* The slugs stored entities may have.
StoredSlugs ==
    {slugify(t) : t \in Texts}
    \cup {slugify(HelloWorld) \o <<"-">> \o r : r \in {<<"a", "a", "a", "a">>}}

\* An entity with a slug.
SlugRow(i, slug) ==
    [id |-> i, val |-> None, created |-> 0, updated |-> 0, slug |-> slug]

\* ---------------------------------------------------------------- worker
\* monitored_job and PeriodicHeartbeat (worker.py).  The wrapper's task (the
\* host) and the heartbeat task run on one event loop: a task runs from one
\* suspension point to the next without interruption, and a cancellation
\* reaches a task only where it is suspended; a task that has not yet started
\* when its scope is cancelled still runs to its first suspension point.
TEN == 10

\* The wrapped function suspends at most MaxAwaits times; at most MaxUpdates
\* heartbeats are followed.
MaxAwaits == 2
MaxUpdates == 3

\* Python's truth value of an optional number.
Truthy(x) == x # None /\ x # 0

\* job.timeout and job.heartbeat, in seconds.
Jobs == [timeout : {None, 0, 10}, heartbeat : {None, 0, 5, TEN, TEN + 1}]

\* What the wrapped function ends with: a value it returns, or an exception.
JobFailed == Exc("ValueError", "job failed")
FuncResults ==
    [value : Vals \cup {None}, exc : {NoExc}] \cup {[value |-> None, exc |-> JobFailed]}

\* What a task gets when its scope is cancelled.
CancelledError == Exc("CancelledError", "")

\* PeriodicHeartbeat.__init__
PeriodicHeartbeat(job) ==
    LET heartbeat_enabled ==
            /\ Truthy(job.timeout)
            /\ job.timeout > 0
            /\ Truthy(job.heartbeat)
            /\ job.heartbeat > 0
    IN  [_running |-> TRUE,
         job |-> job,
         heartbeat_enabled |-> heartbeat_enabled,
         heartbeat |-> IF heartbeat_enabled /\ job.heartbeat <= TEN
                       THEN 1
                       ELSE IF heartbeat_enabled /\ job.heartbeat > TEN
                       THEN 5
                       ELSE 0]

\* PeriodicHeartbeat.stop
stop(heartbeat) ==
    IF heartbeat._running THEN [heartbeat EXCEPT !._running = FALSE] ELSE heartbeat

\* One run of a wrapper made by monitored_job.
\*   pc: "idle" (not called), "func" (the host is suspended inside the
\*       wrapped function), "join" (the host waits at the end of the task
\*       group for the heartbeat task), "done" (the wrapper has ended).
\*   task: the heartbeat task: "none", "unstarted", "updating" (suspended in
\*       job.update()), "sleeping" (for `sleep` seconds), "finished",
\*       "cancelled", "failed".
\*   func, awaits: what the wrapped function will end with, and the
\*       suspension points it has left.
\*   executed_func, raised: what the body of start() got from the function.
\*   cancel_called: the task group's scope has been cancelled.
\*   updates: the job.update() calls made.  task_exc: what the heartbeat
\*       task raised.  returned: what start() returned.  stopped: stop() has
\*       run.  ret, err: what the wrapper returned or raised.
NoBeat ==
    [pc |-> "idle", heartbeat |-> PeriodicHeartbeat([timeout |-> None, heartbeat |-> None]),
     func |-> [value |-> None, exc |-> NoExc], awaits |-> 0,
     executed_func |-> None, raised |-> NoExc, cancel_called |-> FALSE,
     task |-> "none", sleep |-> 0, updates |-> 0, task_exc |-> NoExc,
     returned |-> None, stopped |-> FALSE, ret |-> None, err |-> NoExc]

\* start(): `executed_func = await func` has ended; on a value
\* `tg.cancel_scope.cancel()` follows, on an exception the task group cancels
\* its scope; the host then waits for the heartbeat task.
FuncEnds(b) ==
    [b EXCEPT !.pc = "join",
              !.awaits = 0,
              !.executed_func = b.func.value,
              !.raised = b.func.exc,
              !.cancel_called = TRUE]

\* with_heartbeat up to the host's first suspension: the heartbeat object,
\* tg.start_soon(self._periodically_publish), then the wrapped function.
with_heartbeat(job, func, awaits) ==
    LET b == [NoBeat EXCEPT !.pc = "func",
                            !.heartbeat = PeriodicHeartbeat(job),
                            !.func = func,
                            !.awaits = awaits,
                            !.task = "unstarted"]
    IN  IF awaits = 0 THEN FuncEnds(b) ELSE b

\* The head of the loop of _periodically_publish, up to the suspension in
\* job.update().
_periodically_publish(b) ==
    IF b.heartbeat._running /\ b.heartbeat.heartbeat_enabled
    THEN [b EXCEPT !.task = "updating", !.updates = @ + 1]
    ELSE [b EXCEPT !.task = "finished"]

\* The task group has no task left: start() returns executed_func or raises
\* what its body or the heartbeat task raised; with_heartbeat runs
\* `finally: await heartbeat.stop()` and ends without a return statement.
EndWrapper(b) ==
    [b EXCEPT !.pc = "done",
              !.returned = IF b.raised = NoExc /\ b.task_exc = NoExc
                           THEN b.executed_func
                           ELSE None,
              !.heartbeat = stop(b.heartbeat),
              !.stopped = TRUE,
              !.ret = None,
              !.err = IF b.task_exc # NoExc THEN b.task_exc ELSE b.raised]

\* -------------------------------------------------------------- lifespan
\* before_startup_handler and its readiness loops (lifespan.py).
\* Probes are counted up to MaxProbes.
MaxProbes == 2

Counted(n) == IF n < MaxProbes THEN n + 1 ELSE MaxProbes

\* One run of before_startup_handler.
\*   pc: "idle" (not called), "db" (in _db_ready, about to probe),
\*       "db_sleep" (in its asyncio.sleep(5)), "redis", "redis_sleep"
\*       (likewise in _redis_ready), "done" (the handler has ended).
\*   CHECK_DB_READY, CHECK_REDIS_READY: settings.app.  IS_SQLALCHEMY_INSTALLED,
\*       IS_REDIS_INSTALLED: constants.  db_up, redis_up: whether the backend
\*       answers a probe made now.
\*   db_probes, redis_probes: the probes made.  db_ok, redis_ok: a probe has
\*       succeeded.  err: what the handler raised.
NoBoot ==
    [pc |-> "idle",
     CHECK_DB_READY |-> FALSE, CHECK_REDIS_READY |-> FALSE,
     IS_SQLALCHEMY_INSTALLED |-> FALSE, IS_REDIS_INSTALLED |-> FALSE,
     db_up |-> FALSE, redis_up |-> FALSE,
     db_probes |-> 0, redis_probes |-> 0,
     db_ok |-> FALSE, redis_ok |-> FALSE, err |-> NoExc]

\* _redis_ready, entered
_redis_ready(b) ==
    IF b.IS_REDIS_INSTALLED
    THEN [b EXCEPT !.pc = "redis"]
    ELSE [b EXCEPT !.pc = "done"]

\* before_startup_handler from its second `if` on.
CheckRedisReady(b) ==
    IF b.CHECK_REDIS_READY THEN _redis_ready(b) ELSE [b EXCEPT !.pc = "done"]

\* _db_ready, entered; after it the handler goes on.
_db_ready(b) ==
    IF b.IS_SQLALCHEMY_INSTALLED
    THEN [b EXCEPT !.pc = "db"]
    ELSE CheckRedisReady(b)

\* A mutation of before_startup_handler: CHECK_DB_READY is not consulted.
before_startup_handler_unconditional(b) == _db_ready(b)

before_startup_handler(b) ==
    IF b.CHECK_DB_READY THEN _db_ready(b) ELSE CheckRedisReady(b)

\* A mutation of the loop body of _db_ready: a failed probe is raised.
db_probe_raising(b) ==
    LET p == [b EXCEPT !.db_probes = Counted(@)] IN
    IF b.db_up
    THEN CheckRedisReady([p EXCEPT !.db_ok = TRUE])
    ELSE [p EXCEPT !.pc = "done", !.err = Exc("ConnectionRefusedError", "connection refused")]

\* One pass of the loop of _db_ready: `SELECT 1` on a new connection; on an
\* exception the loop sleeps, otherwise it breaks.
db_probe(b) ==
    LET p == [b EXCEPT !.db_probes = Counted(@)] IN
    IF b.db_up
    THEN CheckRedisReady([p EXCEPT !.db_ok = TRUE])
    ELSE [p EXCEPT !.pc = "db_sleep"]

\* One pass of the loop of _redis_ready: client.ping().
redis_probe(b) ==
    LET p == [b EXCEPT !.redis_probes = Counted(@)] IN
    IF b.redis_up
    THEN [p EXCEPT !.redis_ok = TRUE, !.pc = "done"]
    ELSE [p EXCEPT !.pc = "redis_sleep"]

\* ----------------------------------------------------------------- state
\* store: the table.  session: the identifiers of the instances attached to
\* the caller's session.  now: the clock datetime.now() reads.  last: the
\* call whose outcome the caller has not yet taken (op = "none": no call).
\* calls: the get_or_create calls of concurrent callers, each with a session
\* of its own, and how far each has come.  beat: the run of a monitored job.
\* boot: the run of before_startup_handler.
VARIABLES store, session, now, last, calls, beat, boot

vars == <<store, session, now, last, calls, beat, boot>>

\* A call: its arguments, the table (pre) and the session (attached) it
\* started from, the instant it ran at and its outcome.
Call(op, filters, kwargs, data, item_ids, returning, pre, attached, t, out) ==
    [op |-> op, filters |-> filters, kwargs |-> kwargs, data |-> data,
     item_ids |-> item_ids, returning |-> returning, pre |-> pre,
     attached |-> attached, at |-> t, out |-> out]

EmptyStore == [i \in Ids |-> NoRow]

NoCall ==
    Call("none", <<>>, <<>>, <<>>, {}, FALSE, EmptyStore, {}, 0,
         Outcome(EmptyStore, {}, <<>>, None, FALSE, BaseStatement, NoExc, FALSE, NoExc))

\* The concurrent callers of get_or_create.
Callers == {"a", "b"}

\* A caller's get_or_create: pc is "idle" (no call), "checked" (suspended
\* between the existence check, which found nothing, and the insert), "done"
\* (out is what the call returned or raised at the check) or "created" (out
\* is what the creating branch returned or raised).
RaceCall(pc, kwargs, sess, out) ==
    [pc |-> pc, kwargs |-> kwargs, session |-> sess, out |-> out]

NoRaceCall ==
    RaceCall("idle", <<>>, {},
             Outcome(EmptyStore, {}, <<>>, None, FALSE, BaseStatement, NoExc, FALSE, NoExc))

NoCalls == [c \in Callers |-> NoRaceCall]

Idle == last.op = "none"

\* The outcome of a call becomes the state; the clock is the caller's.
Do(op, filters, kwargs, data, item_ids, returning, out) ==
    /\ store' = out.store
    /\ session' = out.session
    /\ last' = Call(op, filters, kwargs, data, item_ids, returning, store, session, now, out)
    /\ UNCHANGED <<now, calls, beat, boot>>

FreeIds == {i \in Ids : store[i] = NoRow}

\* uuid4() draws: distinct identifiers that no row has.
FreshSeqs(n) ==
    {f \in [1..n -> FreeIds \cup {None}] :
        \A j, k \in 1..n : (j # k /\ f[j] # None) => f[j] # f[k]}

\* ---------------------------------------------------------------- actions
Add ==
    /\ Idle
    /\ \E d \in Data, fault \in Faults, step \in Steps \ {"load"} :
       \E fresh \in (IF d.id = None THEN FreeIds ELSE {None}) :
           Do("add", <<>>, <<>>, <<d>>, {}, FALSE,
              add(d, store, session, now, fresh, fault, step))

AddMany ==
    /\ Idle
    /\ \E data \in DataLists, returning \in BOOLEAN, fault \in Faults :
       \E fresh \in FreshSeqs(Len(data)) :
           /\ \A k \in 1..Len(data) : (data[k].id = None) <=> (fresh[k] # None)
           /\ Do("add_many", <<>>, <<>>, data, {}, returning,
                 add_many(data, returning, store, session, now, fresh, fault))

Delete ==
    /\ Idle
    /\ \E item_id \in Ids, fault \in Faults, step \in Steps \ {"refresh"} :
           Do("delete", <<>>, <<>>, <<>>, {item_id}, FALSE,
              delete(item_id, store, session, fault, step))

DeleteMany ==
    /\ Idle
    /\ \E item_ids \in SUBSET Ids, returning \in BOOLEAN, fault \in Faults :
           Do("delete_many", <<>>, <<>>, <<>>, item_ids, returning,
              delete_many(item_ids, returning, store, session, fault))

Get ==
    /\ Idle
    /\ \E item_id \in Ids, fault \in Faults :
           Do("get", <<>>, <<>>, <<>>, {item_id}, FALSE, get(item_id, store, session, fault))

GetOne ==
    /\ Idle
    /\ \E kwargs \in KwargsSet, fault \in Faults :
           Do("get_one", <<>>, kwargs, <<>>, {}, FALSE,
              get_one(kwargs, store, session, fault))

GetOneOrNone ==
    /\ Idle
    /\ \E kwargs \in KwargsSet \cup IdKwargs, fault \in Faults :
           Do("get_one_or_none", <<>>, kwargs, <<>>, {}, FALSE,
              get_one_or_none(kwargs, store, session, fault))

GetOrCreate ==
    /\ Idle
    /\ \E kwargs \in KwargsSet \ {<<>>}, fault \in Faults, fresh \in FreeIds \cup {None} :
           /\ (fresh = None) <=> (FreeIds = {})
           /\ fresh = None => get_one_or_none(kwargs, store, session, NoExc).ret # <<>>
           /\ Do("get_or_create", <<>>, kwargs, <<>>, {}, FALSE,
                 get_or_create(kwargs, store, session, now, fresh, fault))

Count(FL, KW, FS) ==
    /\ Idle
    /\ \E filters \in FL, kwargs \in KW, fault \in FS :
           Do("count", filters, kwargs, <<>>, {}, FALSE,
              count(filters, kwargs, store, session, fault))

Update ==
    /\ Idle
    /\ \E d \in Data, fault \in Faults, step \in Steps :
           Do("update", <<>>, <<>>, <<d>>, {}, FALSE,
              update(d, store, session, now, fault, step))

UpdateMany ==
    /\ Idle
    /\ \E data \in DataLists, returning \in BOOLEAN, fault \in Faults :
           /\ \A j, k \in 1..Len(data) :
                  (j # k /\ data[j].id # None) => data[j].id # data[k].id
           /\ Do("update_many", <<>>, <<>>, data, {}, returning,
                 update_many(data, returning, store, session, fault))

ListAndCount(FL, KW, FS) ==
    /\ Idle
    /\ \E filters \in FL, kwargs \in KW, fault \in FS :
           Do("list_and_count", filters, kwargs, <<>>, {}, FALSE,
              list_and_count(filters, kwargs, store, session, fault))

List(FL, KW, FS) ==
    /\ Idle
    /\ \E filters \in FL, kwargs \in KW, fault \in FS :
           Do("list", filters, kwargs, <<>>, {}, FALSE,
              list(filters, kwargs, store, session, fault))

Upsert ==
    /\ Idle
    /\ \E d \in Data, fault \in Faults :
       \E step \in (IF d.id = None THEN Steps \ {"load"} ELSE Steps),
          fresh \in (IF d.id = None THEN FreeIds ELSE {None}) :
           Do("upsert", <<>>, <<>>, <<d>>, {}, FALSE,
              upsert(d, store, session, now, fresh, fault, step))

FilterCollectionByKwargs ==
    /\ Idle
    /\ \E kwargs \in KwargsSet \cup {<< <<"bogus", 1>> >>} :
           Do("filter_collection_by_kwargs", <<>>, kwargs, <<>>, {}, FALSE,
              filter_collection_by_kwargs(BaseStatement, kwargs, store, session))

CheckHealth ==
    /\ Idle
    /\ \E query \in Queries, fault \in Faults :
           Do("check_health", <<>>, <<<<"query", query>>>>, <<>>, {}, FALSE,
              check_health(query, store, session, fault))

GetBySlug ==
    /\ Idle
    /\ \E slug \in StoredSlugs, fault \in Faults :
           Do("get_by_slug", <<>>, <<<<"slug", slug>>>>, <<>>, {}, FALSE,
              get_by_slug(slug, store, session, fault))

GetAvailableSlug ==
    /\ Idle
    /\ \E value_to_slugify \in Texts, random_string \in RandomStrings, fault \in Faults :
           Do("get_available_slug", <<>>, <<<<"value_to_slugify", value_to_slugify>>>>,
              <<>>, {}, FALSE,
              get_available_slug(value_to_slugify, random_string, store, session, fault))

\* The caller takes the outcome of its call.
Return ==
    /\ ~Idle
    /\ last' = NoCall
    /\ UNCHANGED <<store, session, now, calls, beat, boot>>

\* Time passes between calls.
Tick ==
    /\ Idle
    /\ now + 1 \in Instants
    /\ now' = now + 1
    /\ UNCHANGED <<store, session, last, calls, beat, boot>>

Init ==
    /\ store = EmptyStore
    /\ session = {}
    /\ now = 0
    /\ last = NoCall
    /\ calls = NoCalls
    /\ beat = NoBeat
    /\ boot = NoBoot

Next ==
    \/ Add
    \/ AddMany
    \/ Delete
    \/ DeleteMany
    \/ Get
    \/ GetOne
    \/ GetOneOrNone
    \/ GetOrCreate
    \/ Count(FewFilterLists, KwargsSet, Faults)
    \/ Update
    \/ UpdateMany
    \/ ListAndCount(FewFilterLists, KwargsSet, Faults)
    \/ List(FewFilterLists, KwargsSet, Faults)
    \/ Upsert
    \/ FilterCollectionByKwargs
    \/ CheckHealth
    \/ Return
    \/ Tick

Spec == Init /\ [][Next]_vars

\* ------------------------------------------------- the query specification
\* The tables the queries run on: any rows, written at any times.
QueryStores ==
    {st \in [Ids -> {NoRow} \cup {Row(i, v, c, c) : i \in Ids, v \in Vals, c \in Instants}] :
        \A i \in Ids : st[i] # NoRow => st[i].id = i}

QueryKwargs == {<<>>, << <<"val", 1>> >>}

InitQuery ==
    /\ store \in QueryStores
    /\ session = {}
    /\ now \in Instants
    /\ now + 1 \notin Instants
    /\ last = NoCall
    /\ calls = NoCalls
    /\ beat = NoBeat
    /\ boot = NoBoot

NextQuery ==
    \/ Count(FilterLists, QueryKwargs, {NoExc})
    \/ ListAndCount(FilterLists, QueryKwargs, {NoExc})
    \/ List(FilterLists, QueryKwargs, {NoExc})
    \/ Return

SpecQuery == InitQuery /\ [][NextQuery]_vars

\* ------------------------------------------ concurrent get_or_create calls
\* Each caller runs get_or_create on a session of its own against the one
\* table; a call suspends at each await, so that another caller's steps may
\* come between the existence check and the insert.
RaceKwargs == (KwargsSet \ {<<>>}) \cup IdKwargs

\* existing = await self.get_one_or_none(**kwargs); if existing: return
RaceCheck(c) ==
    /\ calls[c].pc = "idle"
    /\ \E kwargs \in RaceKwargs :
           LET existing == get_one_or_none(kwargs, store, calls[c].session, NoExc) IN
           calls' = [calls EXCEPT ![c] =
                        IF existing.err # NoExc \/ existing.ret # <<>>
                        THEN RaceCall("done", kwargs, existing.session, existing)
                        ELSE RaceCall("checked", kwargs, existing.session, existing)]
    /\ UNCHANGED <<store, session, now, last, beat, boot>>

\* return (await self.add(self.model_type(**kwargs)), True)
RaceCreate(c) ==
    /\ calls[c].pc = "checked"
    /\ \E fresh \in FreeIds \cup {None} :
           /\ (fresh = None) <=> (KwVal(calls[c].kwargs, "id") # None)
           /\ LET out == create(calls[c].kwargs, store, calls[c].session, now, fresh) IN
              /\ store' = out.store
              /\ calls' = [calls EXCEPT ![c] =
                               RaceCall("created", calls[c].kwargs, out.session, out)]
    /\ UNCHANGED <<session, now, last, beat, boot>>

\* The caller takes what its call returned or raised.
RaceReturn(c) ==
    /\ calls[c].pc \in {"done", "created"}
    /\ calls' = [calls EXCEPT ![c] = RaceCall("idle", <<>>, calls[c].session, NoRaceCall.out)]
    /\ UNCHANGED <<store, session, now, last, beat, boot>>

NextRace ==
    \/ \E c \in Callers : RaceCheck(c)
    \/ \E c \in Callers : RaceCreate(c)
    \/ \E c \in Callers : RaceReturn(c)

SpecRace == Init /\ [][NextRace]_vars

\* ------------------------------------------------- the slug specification
\* The tables of entities with slugs: no two entities have the same slug.
SlugStores ==
    {st \in [Ids -> {NoRow} \cup {SlugRow(i, s) : i \in Ids, s \in StoredSlugs}] :
        /\ \A i \in Ids : st[i] # NoRow => st[i].id = i
        /\ \A i, j \in Ids :
               (i # j /\ st[i] # NoRow /\ st[j] # NoRow) => st[i].slug # st[j].slug}

InitSlug ==
    /\ store \in SlugStores
    /\ session = {}
    /\ now = 0
    /\ last = NoCall
    /\ calls = NoCalls
    /\ beat = NoBeat
    /\ boot = NoBoot

NextSlug ==
    \/ GetBySlug
    \/ GetAvailableSlug
    \/ Return

SpecSlug == InitSlug /\ [][NextSlug]_vars

\* ------------------------------------------------------- a monitored job
\* The worker calls the wrapper with a job; the host runs to its first
\* suspension point.
WithHeartbeat ==
    /\ beat.pc = "idle"
    /\ \E job \in Jobs, func \in FuncResults, awaits \in 0..MaxAwaits :
           beat' = with_heartbeat(job, func, awaits)
    /\ UNCHANGED <<store, session, now, last, calls, boot>>

\* The event loop resumes the wrapped function, which runs to its next
\* suspension point or to its end; the heartbeat task, made ready before the
\* function first suspended, has had its first turn.
FuncResume ==
    /\ beat.pc = "func"
    /\ beat.task # "unstarted"
    /\ ~beat.cancel_called
    /\ beat' = IF beat.awaits = 1 THEN FuncEnds(beat) ELSE [beat EXCEPT !.awaits = @ - 1]
    /\ UNCHANGED <<store, session, now, last, calls, boot>>

\* The heartbeat task has failed and the scope is cancelled: the wrapped
\* function gets CancelledError where it is suspended.
FuncCancelled ==
    /\ beat.pc = "func"
    /\ beat.cancel_called
    /\ beat' = [beat EXCEPT !.pc = "join", !.raised = CancelledError]
    /\ UNCHANGED <<store, session, now, last, calls, boot>>

\* The heartbeat task gets its first turn; the host is suspended.
PublishStart ==
    /\ beat.pc \in {"func", "join"}
    /\ beat.task = "unstarted"
    /\ beat' = _periodically_publish(beat)
    /\ UNCHANGED <<store, session, now, last, calls, boot>>

\* job.update() returns: `await anyio.sleep(self.heartbeat)`.
UpdateDone ==
    /\ beat.task = "updating"
    /\ ~beat.cancel_called
    /\ beat' = [beat EXCEPT !.task = "sleeping", !.sleep = beat.heartbeat.heartbeat]
    /\ UNCHANGED <<store, session, now, last, calls, boot>>

\* job.update() raises: the heartbeat task ends with the exception and the
\* task group cancels its scope.
UpdateFails ==
    /\ beat.task = "updating"
    /\ ~beat.cancel_called
    /\ beat' = [beat EXCEPT !.task = "failed", !.task_exc = Exc("ConnectionError", "connection lost"),
                            !.cancel_called = TRUE]
    /\ UNCHANGED <<store, session, now, last, calls, boot>>

\* The sleep is over: the loop of _periodically_publish goes round.
Wake ==
    /\ beat.task = "sleeping"
    /\ ~beat.cancel_called
    /\ beat.updates < MaxUpdates
    /\ beat' = _periodically_publish(beat)
    /\ UNCHANGED <<store, session, now, last, calls, boot>>

\* The cancellation reaches the heartbeat task where it is suspended.
TaskCancelled ==
    /\ beat.task \in {"updating", "sleeping"}
    /\ beat.cancel_called
    /\ beat' = [beat EXCEPT !.task = "cancelled"]
    /\ UNCHANGED <<store, session, now, last, calls, boot>>

\* The task group has no task left.
Join ==
    /\ beat.pc = "join"
    /\ beat.task \in {"finished", "cancelled", "failed"}
    /\ beat' = EndWrapper(beat)
    /\ UNCHANGED <<store, session, now, last, calls, boot>>

NextHeartbeat ==
    \/ WithHeartbeat
    \/ FuncResume
    \/ FuncCancelled
    \/ PublishStart
    \/ UpdateDone
    \/ UpdateFails
    \/ Wake
    \/ TaskCancelled
    \/ Join

SpecHeartbeat == Init /\ [][NextHeartbeat]_vars

\* ------------------------------------------------------- application startup
\* The settings and constants the handler may find, and the backends as they
\* are when it is called.
Boots ==
    {[NoBoot EXCEPT !.CHECK_DB_READY = cd, !.CHECK_REDIS_READY = cr,
                    !.IS_SQLALCHEMY_INSTALLED = isa, !.IS_REDIS_INSTALLED = ire,
                    !.db_up = du, !.redis_up = ru] :
        cd \in BOOLEAN, cr \in BOOLEAN, isa \in BOOLEAN, ire \in BOOLEAN,
        du \in BOOLEAN, ru \in BOOLEAN}

InitStartup ==
    /\ store = EmptyStore
    /\ session = {}
    /\ now = 0
    /\ last = NoCall
    /\ calls = NoCalls
    /\ beat = NoBeat
    /\ boot \in Boots

\* The application calls the handler before it starts up.
BeforeStartupHandler ==
    /\ boot.pc = "idle"
    /\ boot' = before_startup_handler(boot)
    /\ UNCHANGED <<store, session, now, last, calls, beat>>

DbProbe ==
    /\ boot.pc = "db"
    /\ boot' = db_probe(boot)
    /\ UNCHANGED <<store, session, now, last, calls, beat>>

\* await asyncio.sleep(5) is over.
DbSleep ==
    /\ boot.pc = "db_sleep"
    /\ boot' = [boot EXCEPT !.pc = "db"]
    /\ UNCHANGED <<store, session, now, last, calls, beat>>

RedisProbe ==
    /\ boot.pc = "redis"
    /\ boot' = redis_probe(boot)
    /\ UNCHANGED <<store, session, now, last, calls, beat>>

RedisSleep ==
    /\ boot.pc = "redis_sleep"
    /\ boot' = [boot EXCEPT !.pc = "redis"]
    /\ UNCHANGED <<store, session, now, last, calls, beat>>

\* The database comes up or goes down.
DbChanges ==
    /\ boot' = [boot EXCEPT !.db_up = ~@]
    /\ UNCHANGED <<store, session, now, last, calls, beat>>

\* Redis comes up or goes down.
RedisChanges ==
    /\ boot' = [boot EXCEPT !.redis_up = ~@]
    /\ UNCHANGED <<store, session, now, last, calls, beat>>

NextStartup ==
    \/ BeforeStartupHandler
    \/ DbProbe
    \/ DbSleep
    \/ RedisProbe
    \/ RedisSleep
    \/ DbChanges
    \/ RedisChanges

\* The event loop runs the handler: a probe ends, with an answer or an
\* exception, and a sleep of five seconds ends.
SpecStartup ==
    /\ InitStartup
    /\ [][NextStartup]_vars
    /\ WF_vars(BeforeStartupHandler)
    /\ WF_vars(DbProbe)
    /\ WF_vars(DbSleep)
    /\ WF_vars(RedisProbe)
    /\ WF_vars(RedisSleep)

\* ------------------------------------------------------------ properties
Succeeded == ~Idle /\ last.out.err = NoExc

RowsOf(st) == {st[i] : i \in {j \in Ids : st[j] # NoRow}}

EntityOps ==
    {"get", "get_one", "get_one_or_none", "get_or_create", "list", "list_and_count",
     "add", "add_many", "update", "update_many", "upsert", "delete", "delete_many"}

QueryOps == {"list", "list_and_count", "count"}

\* C1 as stated: after a successful call that returns entities, every
\* returned entity is detached from the session and equals the row stored
\* under its identifier after the flush.
C1_DetachedAndStored ==
    (Succeeded /\ last.op \in EntityOps) =>
        \A e \in SetOf(last.out.ret) : e.id \notin session /\ store[e.id] = e

\* C1 amended: the same, except that an entity returned by delete or
\* delete_many equals the row stored under its identifier before the call.
C1_DetachedSnapshot ==
    (Succeeded /\ last.op \in EntityOps) =>
        \A e \in SetOf(last.out.ret) :
            /\ e.id \notin session
            /\ IF last.op \in {"delete", "delete_many"}
               THEN last.pre[e.id] = e
               ELSE store[e.id] = e

\* An update succeeded and returned the row as the flush left it, with a
\* later `updated` than the row had.
C1_Witness ==
    /\ Succeeded
    /\ last.op = "update"
    /\ Len(last.out.ret) = 1
    /\ last.out.ret[1].updated > last.pre[last.out.ret[1].id].updated
    /\ last.out.ret[1].val # last.pre[last.out.ret[1].id].val

\* The range semantics of BeforeAfter: strictly below `before` and strictly
\* above `after`, each when given.
InRange(v, before, after) ==
    /\ v # None
    /\ before # None => v < before
    /\ after # None => v > after

\* C2: list, list_and_count and count with the one filter
\* BeforeAfter(field, before, after) select exactly the entities whose field
\* value is below `before` and above `after`, each when given.
C2_RangeSelectsBetweenBounds ==
    (Succeeded /\ last.op \in QueryOps /\ last.kwargs = <<>>
     /\ Len(last.filters) = 1 /\ last.filters[1].kind = "BeforeAfter") =>
        LET f == last.filters[1]
            expected == {r \in RowsOf(store) :
                            InRange(Attr(r, f.field_name), f.before, f.after)}
        IN  IF last.op = "count"
            THEN last.out.count = Cardinality(expected)
            ELSE SetOf(last.out.ret) = expected

RECURSIVE WithoutKind(_, _)
WithoutKind(filters, kind) ==
    IF filters = <<>>
    THEN <<>>
    ELSE (IF Head(filters).kind = kind THEN <<>> ELSE <<Head(filters)>>)
         \o WithoutKind(Tail(filters), kind)

HasKind(filters, kind) == \E k \in 1..Len(filters) : filters[k].kind = kind

\* C3: count(F, E) succeeds exactly when list(F without its LimitOffset
\* filters, E) does, and then equals the number of entities that list returns.
C3_CountIgnoresPagination ==
    (~Idle /\ last.op = "count") =>
        LET l == list(WithoutKind(last.filters, "LimitOffset"), last.kwargs,
                      last.pre, {}, NoExc)
        IN  /\ (last.out.err = NoExc) <=> (l.err = NoExc)
            /\ last.out.err = NoExc => last.out.count = Len(l.ret)

\* count was given a LimitOffset that would have cut the result, and counted
\* every matching row.
C3_Witness ==
    /\ Succeeded
    /\ last.op = "count"
    /\ \E k \in 1..Len(last.filters) :
           /\ last.filters[k].kind = "LimitOffset"
           /\ last.filters[k].limit + last.filters[k].offset < last.out.count
    /\ HasKind(last.filters, "CollectionFilter")

\* C4: list_and_count(LimitOffset(L, O), E) returns at most L entities and a
\* total equal to count((), E).
C4_TotalIgnoresPagination ==
    (Succeeded /\ last.op = "list_and_count"
     /\ Len(last.filters) = 1 /\ last.filters[1].kind = "LimitOffset") =>
        /\ Len(last.out.ret) <= last.filters[1].limit
        /\ last.out.count = count(<<>>, last.kwargs, last.pre, {}, NoExc).count

\* What a filter is meant to select.
Selects(f, r) ==
    CASE f.kind = "BeforeAfter" -> InRange(Attr(r, f.field_name), f.before, f.after)
      [] f.kind = "CollectionFilter" ->
            f.values = {} \/ Attr(r, f.field_name) \in f.values
      [] OTHER -> TRUE

SatisfiesAll(r, filters, kwargs) ==
    /\ \A k \in 1..Len(filters) : Selects(filters[k], r)
    /\ \A k \in 1..Len(kwargs) : Attr(r, kwargs[k][1]) = kwargs[k][2]

\* The entities list is meant to return: those that satisfy every predicate
\* and constraint, in scan order, cut by the LimitOffset filter if there is one.
Expected(filters, kwargs, st) ==
    LET ids == Ascending({i \in Ids : st[i] # NoRow /\ SatisfiesAll(st[i], filters, kwargs)})
        rows == [k \in 1..Len(ids) |-> st[ids[k]]]
    IN  IF HasKind(filters, "LimitOffset")
        THEN LET p == CHOOSE k \in 1..Len(filters) : filters[k].kind = "LimitOffset"
             IN  Page(rows, filters[p].limit, filters[p].offset)
        ELSE rows

Orderings(seq) ==
    {[k \in 1..Len(seq) |-> seq[p[k]]] :
        p \in {q \in [1..Len(seq) -> 1..Len(seq)] :
                  \A j, k \in 1..Len(seq) : j # k => q[j] # q[k]}}

AtMostOnePage(filters) ==
    \A j, k \in 1..Len(filters) :
        (filters[j].kind = "LimitOffset" /\ filters[k].kind = "LimitOffset") => j = k

\* C5: list returns exactly the entities that satisfy every predicate filter
\* and every equality constraint, cut by the LimitOffset filter after the
\* predicates, and returns the same for every ordering of the filters.
C5_ListSelectsExactly ==
    (~Idle /\ last.op = "list" /\ ~HasKind(last.filters, "Other")
     /\ AtMostOnePage(last.filters)) =>
        /\ last.out.err = NoExc
        /\ last.out.ret = Expected(last.filters, last.kwargs, last.pre)
        /\ \A g \in Orderings(last.filters) :
               list(g, last.kwargs, last.pre, {}, NoExc).ret = last.out.ret

IsEmptyCollection(f) == f.kind = "CollectionFilter" /\ f.values = {}

RECURSIVE WithoutEmptyCollections(_)
WithoutEmptyCollections(filters) ==
    IF filters = <<>>
    THEN <<>>
    ELSE (IF IsEmptyCollection(Head(filters)) THEN <<>> ELSE <<Head(filters)>>)
         \o WithoutEmptyCollections(Tail(filters))

\* The outcome of the query method `op`.
Query(op, filters, kwargs, st, sess, fault) ==
    CASE op = "list" -> list(filters, kwargs, st, sess, fault)
      [] op = "list_and_count" -> list_and_count(filters, kwargs, st, sess, fault)
      [] op = "count" -> count(filters, kwargs, st, sess, fault)

\* C6: a query with a CollectionFilter whose values are empty has the outcome
\* of the same query without that filter; with no other filter or constraint
\* that is every stored entity.
C6_EmptyCollectionIsNoFilter ==
    (~Idle /\ last.op \in QueryOps
     /\ \E k \in 1..Len(last.filters) : IsEmptyCollection(last.filters[k])) =>
        LET same == Query(last.op, WithoutEmptyCollections(last.filters), last.kwargs,
                          last.pre, {}, NoExc)
        IN  /\ last.out.err = same.err
            /\ last.out.ret = same.ret
            /\ last.out.count = same.count
            /\ (last.kwargs = <<>> /\ WithoutEmptyCollections(last.filters) = <<>>) =>
                   IF last.op = "count"
                   THEN last.out.count = Cardinality(RowsOf(store))
                   ELSE SetOf(last.out.ret) = RowsOf(store)

\* list with only an empty CollectionFilter returned both stored entities.
C6_Witness ==
    /\ Succeeded
    /\ last.op = "list"
    /\ last.filters = <<CollectionFilter("val", {})>>
    /\ last.kwargs = <<>>
    /\ Len(last.out.ret) = 2

\* C7: delete_many(ids) returns exactly the rows that were stored under the
\* identifiers in ids, and leaves exactly the rows stored under the others.
C7_DeleteManyReturnsDeleted ==
    (Succeeded /\ last.op = "delete_many") =>
        /\ SetOf(last.out.ret) = {r \in RowsOf(last.pre) : r.id \in last.item_ids}
        /\ SetOf(list(<<>>, <<>>, store, session, NoExc).ret)
               = {r \in RowsOf(last.pre) : r.id \notin last.item_ids}

\* The identifiers add_many may draw for data.
DrawsFor(data, st) ==
    {f \in [1..Len(data) -> {i \in Ids : st[i] = NoRow} \cup {None}] :
        /\ \A k \in 1..Len(data) : (data[k].id = None) <=> (f[k] # None)
        /\ \A j, k \in 1..Len(data) : (j # k /\ f[j] # None) => f[j] # f[k]}

\* C8: add_many returns exactly the entities it inserted, one per input row,
\* each with its identifier and timestamps set, and the dialect flag changes
\* neither the entities returned nor the table.
C8_AddManyReturnsInserted ==
    (Succeeded /\ last.op = "add_many") =>
        /\ Len(last.out.ret) = Len(last.data)
        /\ SetOf(last.out.ret) = RowsOf(store) \ RowsOf(last.pre)
        /\ \A e \in SetOf(last.out.ret) :
               e.id # None /\ e.created # None /\ e.updated # None
        /\ \A f \in DrawsFor(last.data, last.pre) :
               LET a == add_many(last.data, TRUE, last.pre, {}, last.at, f, NoExc)
                   b == add_many(last.data, FALSE, last.pre, {}, last.at, f, NoExc)
               IN  SetOf(a.ret) = SetOf(b.ret) /\ a.store = b.store /\ a.err = b.err

PublicOps ==
    EntityOps \cup {"count", "filter_collection_by_kwargs", "check_health"}

\* C9: whatever a public operation raises, the caller never observes a
\* backend-native exception.
C9_NoNativeException ==
    (~Idle /\ last.op \in PublicOps) => ~IsNative(last.out.err)

\* C10: of a block inside the boundary, an IntegrityError reaches the caller
\* as ConflictError, any other native error as StarliteSaqlalchemyError with
\* the original message, every error reaches the caller with nothing
\* returned, and a block that raised nothing raises nothing.
C10_BoundaryTranslates ==
    (~Idle /\ last.out.inside) =>
        LET raised == last.out.raised
            err == last.out.err
        IN  /\ raised.type = "IntegrityError" => err.type = "ConflictError"
            /\ (IsNative(raised) /\ raised.type # "IntegrityError") =>
                   err = Exc("StarliteSaqlalchemyError",
                             "An exception occurred: " \o raised.msg)
            /\ raised # NoExc =>
                   /\ err # NoExc
                   /\ last.out.ret = <<>>
            /\ raised = NoExc => err = NoExc

\* An insert violated the primary key and the caller saw ConflictError.
C10_Witness ==
    /\ ~Idle
    /\ last.out.inside
    /\ last.out.raised.type = "IntegrityError"
    /\ last.out.err.type = "ConflictError"

\* The backend raised the injected fault during the call.
Faulted == last.out.raised \in Faults \ {NoExc}

\* C11: without a backend fault, get(id) returns the row stored under id, or
\* fails with NotFoundError when there is none; get_one_or_none(id=id) returns
\* the row, or nothing when there is none; both leave the table unchanged.
C11_GetFindsOrFails ==
    /\ (~Idle /\ last.op = "get" /\ ~Faulted) =>
           \A item_id \in last.item_ids :
               /\ store = last.pre
               /\ IF last.pre[item_id] # NoRow
                  THEN last.out.err = NoExc /\ last.out.ret = <<last.pre[item_id]>>
                  ELSE last.out.err.type = "NotFoundError" /\ last.out.ret = <<>>
    /\ (~Idle /\ last.op = "get_one_or_none" /\ last.kwargs \in IdKwargs /\ ~Faulted) =>
           LET item_id == last.kwargs[1][2] IN
               /\ store = last.pre
               /\ last.out.err = NoExc
               /\ last.out.ret = IF last.pre[item_id] # NoRow
                                 THEN <<last.pre[item_id]>>
                                 ELSE <<>>

\* get_one_or_none(id=i) returned nothing, without an error, from a table
\* that holds another row.
C11_Witness ==
    /\ Succeeded
    /\ last.op = "get_one_or_none"
    /\ last.kwargs \in IdKwargs
    /\ last.out.ret = <<>>
    /\ store # EmptyStore

\* C12: without a backend fault, update of a model whose identifier no row
\* has fails with NotFoundError and leaves the table unchanged; otherwise it
\* sets the supplied values on the row with that identifier, leaves every
\* other row (and so the number of rows) unchanged and returns the row.
C12_UpdateOverwritesOrFails ==
    (~Idle /\ last.op = "update" /\ ~Faulted) =>
        LET d == last.data[1] IN
        IF d.id = None \/ last.pre[d.id] = NoRow
        THEN /\ last.out.err.type = "NotFoundError"
             /\ store = last.pre
        ELSE /\ last.out.err = NoExc
             /\ last.out.ret = <<store[d.id]>>
             /\ store[d.id].id = d.id
             /\ store[d.id].val = d.val
             /\ store[d.id].created = last.pre[d.id].created
             /\ \A i \in Ids \ {d.id} : store[i] = last.pre[i]
             /\ Cardinality(RowsOf(store)) = Cardinality(RowsOf(last.pre))

\* An update changed the value of one of two stored rows.
C12_Witness ==
    /\ Succeeded
    /\ last.op = "update"
    /\ Cardinality(RowsOf(last.pre)) = 2
    /\ store[last.data[1].id].val # last.pre[last.data[1].id].val

C13_WitnessCreated ==
    /\ Succeeded
    /\ last.op = "upsert"
    /\ last.data[1].id = None
    /\ Cardinality(RowsOf(store)) = 2

\* C14: without a backend fault, delete(id) of a stored row returns the row
\* as it was, after which get(id) fails with NotFoundError and every other
\* row is unchanged; delete(id) with no such row fails with NotFoundError and
\* leaves the table unchanged.
C14_DeleteReturnsSnapshot ==
    (~Idle /\ last.op = "delete" /\ ~Faulted) =>
        \A item_id \in last.item_ids :
            IF last.pre[item_id] # NoRow
            THEN /\ last.out.err = NoExc
                 /\ last.out.ret = <<last.pre[item_id]>>
                 /\ get(item_id, store, session, NoExc).err.type = "NotFoundError"
                 /\ \A i \in Ids \ {item_id} : store[i] = last.pre[i]
            ELSE /\ last.out.err.type = "NotFoundError"
                 /\ store = last.pre

\* A delete removed one of two stored rows.
C14_Witness ==
    /\ Succeeded
    /\ last.op = "delete"
    /\ Cardinality(RowsOf(last.pre)) = 2
    /\ Cardinality(RowsOf(store)) = 1

\* C15: after a successful add(e), get with the identifier of the returned
\* entity succeeds and returns an entity with the data e carries, and with
\* e's identifier when e has one; identifier (when unset), created and
\* updated are generated.
C15_AddGetRoundTrip ==
    (Succeeded /\ last.op = "add") =>
        LET e == last.data[1]
            g == get(last.out.ret[1].id, store, session, NoExc)
        IN  /\ g.err = NoExc
            /\ Len(g.ret) = 1
            /\ g.ret[1].val = e.val
            /\ e.id # None => g.ret[1].id = e.id
            /\ e.id = None => g.ret[1].id \in Ids /\ last.pre[g.ret[1].id] = NoRow
            /\ g.ret[1].created = last.at
            /\ g.ret[1].updated = last.at
            /\ g.ret[1] = last.out.ret[1]

\* An entity without identifier was added to a table that held a row, at the
\* later instant.
C15_Witness ==
    /\ Succeeded
    /\ last.op = "add"
    /\ last.data[1].id = None
    /\ last.pre # EmptyStore
    /\ last.at > 0

\* The rows of st that satisfy the equality constraints.
Matching(kwargs, st) ==
    {r \in RowsOf(st) : \A k \in 1..Len(kwargs) : Attr(r, kwargs[k][1]) = kwargs[k][2]}

\* C16: without a backend fault, get_or_create with constraints that no row
\* satisfies adds exactly one row, built from the constraints, and returns it
\* with True; the same call made next adds nothing and returns that row with
\* False.
C16_GetOrCreateTwice ==
    (~Idle /\ last.op = "get_or_create" /\ ~Faulted
     /\ Matching(last.kwargs, last.pre) = {}) =>
        /\ last.out.err = NoExc
        /\ last.out.flag = TRUE
        /\ Len(last.out.ret) = 1
        /\ RowsOf(store) = RowsOf(last.pre) \cup {last.out.ret[1]}
        /\ last.out.ret[1] \notin RowsOf(last.pre)
        /\ Matching(last.kwargs, store) = {last.out.ret[1]}
        /\ \A fresh \in Ids :
               LET again == get_or_create(last.kwargs, store, session, last.at, fresh, NoExc)
               IN  /\ again.err = NoExc
                   /\ again.flag = FALSE
                   /\ again.ret = last.out.ret
                   /\ again.store = store

\* get_or_create created a row beside a stored one that the constraints do
\* not match.
C16_Witness ==
    /\ Succeeded
    /\ last.op = "get_or_create"
    /\ last.out.flag = TRUE
    /\ Cardinality(RowsOf(last.pre)) = 1
    /\ Cardinality(RowsOf(store)) = 2

\* Two callers have both passed the existence check with the same
\* constraints and both run the creating branch.
Raced(c, d) ==
    /\ c # d
    /\ calls[c].pc = "created"
    /\ calls[d].pc = "created"
    /\ calls[c].kwargs = calls[d].kwargs

\* C17: a call that found nothing and ran the creating branch either returns
\* a stored row that satisfies its constraints, with True, or raises
\* ConflictError; when two callers with the same constraints have both done
\* so, either both created and two rows satisfy the constraints, or exactly
\* one of them raised ConflictError.
C17_RaceIsSurfaced ==
    /\ \A c \in Callers :
           calls[c].pc = "created" =>
               \/ /\ calls[c].out.err = NoExc
                  /\ calls[c].out.flag = TRUE
                  /\ Len(calls[c].out.ret) = 1
                  /\ calls[c].out.ret[1] \in Matching(calls[c].kwargs, store)
               \/ /\ calls[c].out.err.type = "ConflictError"
                  /\ calls[c].out.ret = <<>>
    /\ \A c, d \in Callers :
           Raced(c, d) =>
               \/ /\ calls[c].out.err = NoExc
                  /\ calls[d].out.err = NoExc
                  /\ calls[c].out.ret # calls[d].out.ret
                  /\ Cardinality(Matching(calls[c].kwargs, store)) >= 2
               \/ /\ calls[c].out.err.type = "ConflictError"
                  /\ calls[d].out.err = NoExc
               \/ /\ calls[d].out.err.type = "ConflictError"
                  /\ calls[c].out.err = NoExc

\* Both callers found nothing and both inserted: two rows satisfy the
\* constraints.
C17_Witness ==
    \E c, d \in Callers :
        /\ Raced(c, d)
        /\ calls[c].out.err = NoExc
        /\ calls[d].out.err = NoExc
        /\ Cardinality(Matching(calls[c].kwargs, store)) = 2

\* Both callers found nothing and the second insert raised ConflictError.
C17_WitnessConflict ==
    \E c, d \in Callers :
        /\ Raced(c, d)
        /\ calls[c].out.err = NoExc
        /\ calls[d].out.err.type = "ConflictError"

\* C18: when add, update, upsert or delete raises, the session has the
\* instances attached that it had before the call.
C18_FailureLeavesSessionAsItWas ==
    (~Idle /\ last.op \in {"add", "update", "upsert", "delete"} /\ last.out.err # NoExc) =>
        session = last.attached

\* C19: after a successful update, upsert or update_many, every row that was
\* stored before the call and whose values the call changed has an `updated`
\* that is the instant of the call, hence not older than before.
C19_UpdatedIsBumped ==
    (Succeeded /\ last.op \in {"update", "upsert", "update_many"}) =>
        \A k \in 1..Len(last.data) :
            LET d == last.data[k] IN
            (d.id # None /\ last.pre[d.id] # NoRow /\ last.pre[d.id].val # store[d.id].val) =>
                /\ store[d.id].updated >= last.pre[d.id].updated
                /\ store[d.id].updated = last.at

C20_WitnessHelloWorld ==
    /\ Succeeded
    /\ last.op = "get_available_slug"
    /\ last.kwargs[1][2] = HelloWorld
    /\ store = EmptyStore
    /\ last.out.ret = << <<"h", "e", "l", "l", "o", "-", "w", "o", "r", "l", "d">> >>

\* C21: when get_available_slug returns, no stored entity has a slug equal to
\* the returned string.
C21_ReturnedSlugIsFree ==
    (Succeeded /\ last.op = "get_available_slug") =>
        \A r \in RowsOf(store) : r.slug # last.out.ret[1]

\* The part of C21 that the one lookup does establish: a slug returned without
\* a suffix is the slug of no stored entity.
C21_UnsuffixedSlugIsFree ==
    (Succeeded /\ last.op = "get_available_slug"
        /\ last.out.ret[1] = slugify(last.kwargs[1][2])) =>
        \A r \in RowsOf(store) : r.slug # last.out.ret[1]

\* What C22 says of one successful update_many call.
UpdateManyAsClaimed ==
    LET ids == IdsOf(last.data) IN
    /\ SetOf(last.out.ret) = {r \in RowsOf(store) : r.id \in ids}
    /\ \A r \in SetOf(last.out.ret) :
           \A k \in 1..Len(last.data) :
               last.data[k].id = r.id => r.val = last.data[k].val
    /\ \A i \in Ids \ ids : store[i] = last.pre[i]
    /\ LET a == update_many(last.data, TRUE, last.pre, {}, NoExc)
           b == update_many(last.data, FALSE, last.pre, {}, NoExc)
       IN  SetOf(a.ret) = SetOf(b.ret) /\ a.store = b.store

\* C22: for every input list, the empty one included, and either value of
\* update_executemany_returning, update_many(data) returns exactly the
\* entities whose identifiers appear in data, each with the supplied values,
\* leaves every other row as it was, and returns the same set under both
\* strategies.
C22_UpdateManyReturnsUpdated ==
    (Succeeded /\ last.op = "update_many") => UpdateManyAsClaimed

\* C22 restricted to non-empty input lists.
C22_NonEmptyUpdateMany ==
    (Succeeded /\ last.op = "update_many" /\ last.data # <<>>) => UpdateManyAsClaimed

\* update_many changed a stored row and returned it, without RETURNING.
C22_NonEmptyWitness ==
    /\ Succeeded
    /\ last.op = "update_many"
    /\ ~last.returning
    /\ \E k \in 1..Len(last.data) :
           LET d == last.data[k] IN
           /\ d.id # None
           /\ last.pre[d.id] # NoRow
           /\ last.pre[d.id].val # d.val
           /\ store[d.id] \in SetOf(last.out.ret)

KnownFilterKinds == {"LimitOffset", "BeforeAfter", "CollectionFilter"}

UnexpectedFilter == Exc("StarliteSaqlalchemyError", "Unexpected filter")

\* The call in flight was given a filter of none of the three known types.
GivenUnknownFilter ==
    /\ ~Idle
    /\ last.op \in QueryOps
    /\ \E k \in 1..Len(last.filters) : last.filters[k].kind \notin KnownFilterKinds

\* The query method of the call in flight, on the table and session the call
\* found, with the backend raising fault on any statement it is given.
Requery(fault) ==
    CASE last.op = "list" ->
             list(last.filters, last.kwargs, last.pre, last.attached, fault)
      [] last.op = "list_and_count" ->
             list_and_count(last.filters, last.kwargs, last.pre, last.attached, fault)
      [] last.op = "count" ->
             count(last.filters, last.kwargs, last.pre, last.attached, fault)

\* C23: list, list_and_count or count given a filter that is none of
\* LimitOffset, BeforeAfter, CollectionFilter fails with
\* StarliteSaqlalchemyError("Unexpected filter"), raised outside any
\* translation boundary and reaching the caller as raised; no statement is
\* executed (a backend that fails every statement makes no difference), and
\* the table and the session are as before the call.
C23_UnknownFilterFails ==
    GivenUnknownFilter =>
        /\ last.out.raised = UnexpectedFilter
        /\ ~last.out.inside
        /\ last.out.err = UnexpectedFilter
        /\ last.out.ret = <<>>
        /\ store = last.pre
        /\ session = last.attached
        /\ \A fault \in Faults : Requery(fault) = last.out

\* list_and_count was given a known filter followed by an unknown one, on a
\* table that has rows.
C23_Witness ==
    /\ GivenUnknownFilter
    /\ last.op = "list_and_count"
    /\ Len(last.filters) = 2
    /\ last.filters[1].kind = "CollectionFilter"
    /\ last.filters[2].kind = "Other"
    /\ RowsOf(store) # {}
    /\ last.out.err = UnexpectedFilter

\* count was given an unknown filter.
C23_WitnessCount ==
    /\ GivenUnknownFilter
    /\ last.op = "count"
    /\ last.out.err = UnexpectedFilter

\* The wrapped function has returned or raised.
FuncEnded == beat.pc \in {"join", "done"} /\ beat.raised # CancelledError

\* C24: heartbeats (job.update() calls) are made only while the wrapped
\* function runs: none when heartbeats are disabled; a call is made only
\* when the function has not yet returned or raised; and once the wrapper
\* has ended, the heartbeat task has ended, stop() has set _running to false
\* and no job.update() call follows.
C24_HeartbeatsOnlyWhileRunning ==
    /\ [](~beat.heartbeat.heartbeat_enabled => beat.updates = 0)
    /\ [][beat'.updates # beat.updates => ~FuncEnded]_vars
    /\ [](beat.pc = "done" =>
              /\ beat.task \in {"finished", "cancelled", "failed"}
              /\ beat.stopped
              /\ ~beat.heartbeat._running)
    /\ [][beat.pc = "done" => beat'.updates = beat.updates]_vars

\* The parts of C24 about disabled heartbeats and about the time after the
\* wrapper has ended.
C24_NoneWhenDisabledOrStopped ==
    /\ [](~beat.heartbeat.heartbeat_enabled => beat.updates = 0)
    /\ [](beat.pc = "done" =>
              /\ beat.task \in {"finished", "cancelled", "failed"}
              /\ beat.stopped
              /\ ~beat.heartbeat._running)
    /\ [][beat.pc = "done" => beat'.updates = beat.updates]_vars

\* Once the heartbeat task has started, it makes no job.update() call after
\* the wrapped function has returned or raised.
C24_StartedTaskIsCancelled ==
    [][(beat.task # "unstarted" /\ beat'.updates # beat.updates) => ~FuncEnded]_vars

\* A job with heartbeats ran to its end with heartbeats made.
C24_Witness ==
    /\ beat.pc = "done"
    /\ beat.heartbeat.heartbeat_enabled
    /\ beat.updates = 2
    /\ beat.task = "cancelled"

\* C25: the wrapper made by monitored_job returns the value the wrapped
\* function returned and raises the exception the wrapped function raised,
\* in both cases after stop() has been called on the heartbeat.
C25_WrapperIsTransparent ==
    (beat.pc = "done" /\ beat.raised # CancelledError) =>
        /\ beat.stopped
        /\ beat.err = beat.func.exc
        /\ beat.func.exc = NoExc => beat.ret = beat.func.value

\* The parts of C25 that hold: start() returns the value; the wrapper raises
\* the exception; stop() has been called when the wrapper ends.
C25_ExceptionIsPassedOn ==
    (beat.pc = "done" /\ beat.raised # CancelledError) =>
        /\ beat.stopped
        /\ ~beat.heartbeat._running
        /\ beat.err = beat.func.exc
        /\ beat.func.exc = NoExc => beat.returned = beat.func.value

\* The wrapped function raised and the wrapper has ended.
C25_WitnessRaised ==
    /\ beat.pc = "done"
    /\ beat.func.exc = JobFailed
    /\ beat.err = JobFailed
    /\ beat.updates > 0

\* The wrapped function returned a value and the wrapper has ended.
C25_WitnessReturned ==
    /\ beat.pc = "done"
    /\ beat.raised = NoExc
    /\ beat.func.value = 1
    /\ beat.returned = 1

InDbLoop == boot.pc \in {"db", "db_sleep"}
InRedisLoop == boot.pc \in {"redis", "redis_sleep"}

\* C26 as stated, with a check enabled when its setting is set: the Redis
\* loop starts only after the database loop has seen a successful probe when
\* CHECK_DB_READY is set, the handler ends only when every check whose
\* setting is set has succeeded, and a check whose setting is not set makes
\* no probe.
C26_ChecksInOrderBySetting ==
    /\ (boot.CHECK_DB_READY /\ (InRedisLoop \/ boot.redis_probes > 0)) => boot.db_ok
    /\ boot.pc = "done" =>
           /\ boot.CHECK_DB_READY => boot.db_ok
           /\ boot.CHECK_REDIS_READY => boot.redis_ok
    /\ ~boot.CHECK_DB_READY => boot.db_probes = 0
    /\ ~boot.CHECK_REDIS_READY => boot.redis_probes = 0

DbCheckEnabled == boot.CHECK_DB_READY /\ boot.IS_SQLALCHEMY_INSTALLED
RedisCheckEnabled == boot.CHECK_REDIS_READY /\ boot.IS_REDIS_INSTALLED

\* C26: a readiness check is enabled when its setting is set and its package
\* is installed.  The Redis loop starts only after the database loop has
\* seen a successful probe when the database check is enabled; the handler
\* ends only when every enabled check has succeeded; a check that is not
\* enabled makes no probe; the database loop is never entered after the
\* Redis loop; the handler raises nothing.
C26_ChecksInOrder ==
    /\ (DbCheckEnabled /\ (InRedisLoop \/ boot.redis_probes > 0)) => boot.db_ok
    /\ boot.pc = "done" =>
           /\ DbCheckEnabled => boot.db_ok
           /\ RedisCheckEnabled => boot.redis_ok
           /\ boot.err = NoExc
    /\ ~DbCheckEnabled => (boot.db_probes = 0 /\ ~InDbLoop)
    /\ ~RedisCheckEnabled => (boot.redis_probes = 0 /\ ~InRedisLoop)
    /\ InDbLoop => boot.redis_probes = 0

\* Both checks were enabled, the database answered at its second probe or
\* later, and the handler has ended.
C26_Witness ==
    /\ boot.pc = "done"
    /\ DbCheckEnabled
    /\ RedisCheckEnabled
    /\ boot.db_probes >= 2
    /\ boot.redis_probes >= 1
    /\ boot.db_ok
    /\ boot.redis_ok

\* The database check is switched off, the Redis check has run.
C26_WitnessDisabled ==
    /\ boot.pc = "done"
    /\ ~boot.CHECK_DB_READY
    /\ boot.IS_SQLALCHEMY_INSTALLED
    /\ RedisCheckEnabled
    /\ boot.redis_ok

\* A step of a readiness loop does what the loop's code says: a probe the
\* backend answers ends the loop, a probe that fails leads to the sleep, and
\* the sleep leads to the next probe.
LoopSteps ==
    /\ (boot.pc = "db" /\ boot'.pc # "db") =>
           IF boot.db_up
           THEN boot'.db_ok /\ boot'.pc \notin {"db", "db_sleep"}
           ELSE boot'.pc = "db_sleep" /\ ~boot'.db_ok
    /\ (boot.pc = "db_sleep" /\ boot'.pc # "db_sleep") => boot'.pc = "db"
    /\ (boot.pc = "redis" /\ boot'.pc # "redis") =>
           IF boot.redis_up
           THEN boot'.redis_ok /\ boot'.pc = "done"
           ELSE boot'.pc = "redis_sleep" /\ ~boot'.redis_ok
    /\ (boot.pc = "redis_sleep" /\ boot'.pc # "redis_sleep") => boot'.pc = "redis"

\* C27: _db_ready and _redis_ready never raise a probe's failure; a failed
\* probe is followed by a wait and the wait by another probe; the loop ends
\* at the first successful probe and only then; so a loop ends if its backend
\* comes up and stays up, and never ends if its backend never answers.
C27_LoopsRetryUntilReady ==
    /\ [](boot.err = NoExc)
    /\ [][LoopSteps]_vars
    /\ (boot.pc = "db_sleep") ~> (boot.pc = "db")
    /\ (boot.pc = "redis_sleep") ~> (boot.pc = "redis")
    /\ (<>[]boot.db_up) => <>[]~InDbLoop
    /\ (<>[]boot.redis_up) => <>[]~InRedisLoop
    /\ []((InDbLoop /\ []~boot.db_up) => []InDbLoop)
    /\ []((InRedisLoop /\ []~boot.redis_up) => []InRedisLoop)

\* The database loop slept after a failed probe, probed again and ended.
C27_Witness ==
    /\ DbCheckEnabled
    /\ boot.db_probes >= 2
    /\ boot.db_ok
    /\ ~InDbLoop

\* The Redis loop is asleep after a failed probe.
C27_WitnessWaiting ==
    /\ boot.pc = "redis_sleep"
    /\ boot.redis_probes >= 1
    /\ ~boot.redis_ok
====
